---- MODULE Spec2Model ----
(***************************************************************************)
(* State-machine model of the secure-auth-service: the account table, the  *)
(* wall clock and the request handlers of app/api/v1/auth.py and           *)
(* app/api/v1/users.py.                                                    *)
(*                                                                         *)
(* A handler is an operator that maps the current state and the request's  *)
(* inputs to its outcome: the committed table, the id and token counters   *)
(* and the HTTP response.  An action applies one whole handler.  The       *)
(* service answers a request (Respond) before it handles the next one.     *)
(***************************************************************************)
EXTENDS Integers, Sequences, FiniteSets, TLC

VARIABLES
    users,      \* the user table: account id -> row
    now,        \* the UTC clock, in minutes
    nextId,     \* the next fresh account id (uuid4)
    nextTok,    \* the next fresh verification token (secrets.token_urlsafe)
    resp,       \* the response to the request being answered, or NoResp
    streak,     \* history: the run of consecutive wrong-secret logins
    used,       \* history: verification tokens that VerifyEmail accepted
    replayed,   \* history: accepted tokens that were presented again
    events,     \* the security events logged for the request being answered
    hits,       \* the rate limiter's storage: client key -> action -> count
    seen,       \* history: requests made in this window, by client and action
    settings,   \* the Settings object built when the process starts
    sessions,   \* the requests in flight: slot -> what its AsyncSession holds
    tally       \* history: what the concurrent requests have done so far

vars == <<users, now, nextId, nextTok, resp, streak, used, replayed,
          events, hits, seen, settings, sessions, tally>>

(* ------------------------------ bounds --------------------------------- *)
\* Number of account ids (uuid4 values) that can ever be handed out.
MaxUsers == 2
\* Last clock value (minutes) the model explores.
MaxTime == 20
\* Minutes the clock advances in one Tick.
TickStep == 8
\* Requests the rate-limited endpoints receive in one limiter window.
MaxBurst == 12
\* Failed credential verifications followed between two resets of
\* failed_attempts when requests run concurrently.
MaxVerifs == 8

(* ------------------------- program constants --------------------------- *)
\* auth.py:137  `if user.failed_attempts >= 5`
MaxAttempts == 5
\* auth.py:138  `now + timedelta(minutes=15)`
LockoutMinutes == 15
\* config.py: ACCESS_TOKEN_EXPIRE_MINUTES, REFRESH_TOKEN_EXPIRE_DAYS
AccessTokenExpireMinutes == 15
RefreshTokenExpireDays == 7
\* auth.py: @conditional_limit("5/minute") on register, ("10/minute") on login
RegisterLimit == 5
LoginLimit == 10
\* The length of the limiter's window ("/minute"), in minutes.
WindowMinutes == 1
\* config.py: the defaults of the two lockout settings.
DefaultSettings == [MAX_LOGIN_ATTEMPTS |-> 5, LOCKOUT_DURATION_MINUTES |-> 15]

(* ------------------------------ values --------------------------------- *)
\* Optional[T] is a sequence of length <= 1: <<>> is None, <<v>> is v.
None == <<>>
Some(v) == <<v>>

Ids == 1..MaxUsers
AdminEmail == "admin@example.com"
Emails == {AdminEmail, "alice@example.com"}

\* Passwords are sequences of characters, so that the complexity rules can
\* inspect them.
PwValid == <<"V","a","l","i","d","P","a","s","s","1","2","3","!">>
PwWrong == <<"W","r","o","n","g","P","a","s","s","!">>
Passwords == {PwValid, PwWrong}

UpperChars == {"A","B","C","D","E","F","G","H","I","J","K","L","M",
               "N","O","P","Q","R","S","T","U","V","W","X","Y","Z"}
LowerChars == {"a","b","c","d","e","f","g","h","i","j","k","l","m",
               "n","o","p","q","r","s","t","u","v","w","x","y","z"}
DigitChars == {"0","1","2","3","4","5","6","7","8","9"}
SpecialChars == {"!","@","#","$","%","^","&","*","(",")",",",".","?",
                 "\"",":","{","}","|","<",">"}

HasChar(p, S) == \E i \in 1..Len(p) : p[i] \in S

\* Faulty variant: validation stops at the first violated rule.
PwErrors_first(p) ==
    IF Len(p) < 8 THEN <<"Password must be at least 8 characters long.">>
    ELSE IF ~HasChar(p, UpperChars) THEN <<"Password must contain at least one uppercase letter.">>
    ELSE IF ~HasChar(p, LowerChars) THEN <<"Password must contain at least one lowercase letter.">>
    ELSE IF ~HasChar(p, DigitChars) THEN <<"Password must contain at least one digit.">>
    ELSE IF ~HasChar(p, SpecialChars) THEN <<"Password must contain at least one special character.">>
    ELSE <<>>

\* validate_password_complexity: the messages of the violated rules, in
\* order (empty = accepted).
PwErrors(p) ==
    (IF Len(p) < 8 THEN <<"Password must be at least 8 characters long.">> ELSE <<>>)
    \o (IF ~HasChar(p, UpperChars) THEN <<"Password must contain at least one uppercase letter.">> ELSE <<>>)
    \o (IF ~HasChar(p, LowerChars) THEN <<"Password must contain at least one lowercase letter.">> ELSE <<>>)
    \o (IF ~HasChar(p, DigitChars) THEN <<"Password must contain at least one digit.">> ELSE <<>>)
    \o (IF ~HasChar(p, SpecialChars) THEN <<"Password must contain at least one special character.">> ELSE <<>>)

\* security.py: bcrypt hash; verify succeeds exactly on the hashed plaintext.
get_password_hash(p) == [alg |-> "bcrypt", of |-> p]
verify_password(p, h) == h.alg = "bcrypt" /\ h.of = p

\* str(uuid), as used for token subjects and response ids.
UuidStr(id) == [uuid |-> id]

\* security.py: signed tokens carrying the subject and the expiry.
create_access_token(subject) ==
    [sub |-> subject, exp |-> now + AccessTokenExpireMinutes, kind |-> "access"]
create_refresh_token(subject) ==
    [sub |-> subject, exp |-> now + RefreshTokenExpireDays * 24 * 60, kind |-> "refresh"]

(* ------------------------------ database ------------------------------- *)
\* Faulty variant: a fresh row is a superuser.
NewUser_super(email, password) ==
    [email |-> email,
     hashed_password |-> get_password_hash(password),
     is_active |-> TRUE,
     is_superuser |-> TRUE,
     failed_attempts |-> 0,
     locked_until |-> None,
     email_verified |-> FALSE,
     email_verification_token |-> None]

\* models.py / crud create_user: a fresh row.
NewUser(email, password) ==
    [email |-> email,
     hashed_password |-> get_password_hash(password),
     is_active |-> TRUE,
     is_superuser |-> FALSE,
     failed_attempts |-> 0,
     locked_until |-> None,
     email_verified |-> FALSE,
     email_verification_token |-> None]

\* conftest.py admin_user fixture: the seeded administrator.
SeedAdmin ==
    [NewUser(AdminEmail, PwValid) EXCEPT !.is_superuser = TRUE, !.email_verified = TRUE]

Min(S) == CHOOSE x \in S : \A y \in S : x <= y

\* crud get_user_by_email: Optional id of the first row with that email.
get_user_by_email(email) ==
    LET S == {u \in DOMAIN users : users[u].email = email}
    IN IF S = {} THEN None ELSE Some(Min(S))

\* Faulty variant: The credential check also refuses an unverified account.
authenticate_user_verified(email, password) ==
    LET user == get_user_by_email(email)
    IN IF user = None THEN None
       ELSE IF ~verify_password(password, users[user[1]].hashed_password) THEN None
       ELSE IF ~users[user[1]].is_active \/ ~users[user[1]].email_verified THEN None
       ELSE user

\* Faulty variant: a deactivated account authenticates.
authenticate_user_inactive(email, password) ==
    LET user == get_user_by_email(email)
    IN IF user = None THEN None
       ELSE IF ~verify_password(password, users[user[1]].hashed_password) THEN None
       ELSE user

\* crud authenticate_user: Optional id.
authenticate_user(email, password) ==
    LET user == get_user_by_email(email)
    IN IF user = None THEN None
       ELSE IF ~verify_password(password, users[user[1]].hashed_password) THEN None
       ELSE IF ~users[user[1]].is_active THEN None
       ELSE user

\* crud get_user: Optional id of the row with that primary key.
get_user(t) == IF t \in DOMAIN users THEN Some(t) ELSE None

\* The table with row u set to r / with row u deleted.
Put(u, r) == [x \in DOMAIN users \cup {u} |-> IF x = u THEN r ELSE users[x]]
Drop(u) == [x \in DOMAIN users \ {u} |-> users[x]]

(* ------------------------------ responses ------------------------------ *)
\* An HTTP response: status, detail messages and the payload fields.
Resp(op, status, detail) ==
    [op |-> op, status |-> status, detail |-> detail,
     id |-> None, tokens |-> <<>>, until |-> None]
NoResp == Resp("none", 0, <<>>)

\* Outcome of a handler that raises or returns without committing.
Answer(r) == [users |-> users, nextId |-> nextId, nextTok |-> nextTok, resp |-> r]

\* Outcome of a handler that commits the table t.
Commit(t, r) == [users |-> t, nextId |-> nextId, nextTok |-> nextTok, resp |-> r]

(* ------------------------------ logging -------------------------------- *)
\* logging.py: the clock value at which the module was imported, which is
\* when the class body of SecurityEvent was executed.
ImportTime == 0

\* logging.py SecurityEvent: `timestamp: datetime = datetime.utcnow()` is a
\* default VALUE, computed once when the class is defined; no caller passes
\* a timestamp, so every event carries it.
SecurityEvent(event_type, success) ==
    [event_type |-> event_type, success |-> success, timestamp |-> ImportTime]

log_auth_success == SecurityEvent("auth_success", TRUE)
log_auth_failure == SecurityEvent("auth_failure", FALSE)
log_account_lockout == SecurityEvent("account_lockout", FALSE)

(* ------------------------------ /auth ---------------------------------- *)
\* POST /auth/register
register(email, password) ==
    LET errors == PwErrors(password) IN
    IF errors # <<>> THEN
        \* validate_password_complexity raises HTTPException(400)
        Answer(Resp("register", 400, errors))
    ELSE IF get_user_by_email(email) # None THEN
        \* create_user raises ValueError; register logs it and re-raises, and
        \* no handler turns a ValueError into an HTTP error response.
        Answer(Resp("register", 500, <<"Internal Server Error">>))
    ELSE
        [users |-> Put(nextId, [NewUser(email, password) EXCEPT
                                  !.email_verification_token = Some(nextTok),
                                  !.email_verified = FALSE]),
         nextId |-> nextId + 1,
         nextTok |-> nextTok + 1,
         resp |-> [Resp("register", 201, <<"user created, verification email sent">>)
                     EXCEPT !.id = Some(UuidStr(nextId))]]

\* Faulty variant: The flag is not set; only the token is cleared.
verify_email_noflag(token) ==
    LET S == {u \in DOMAIN users : users[u].email_verification_token = Some(token)} IN
    IF S = {} THEN
        Answer(Resp("verify_email", 400, <<"Invalid or expired token">>))
    ELSE IF Cardinality(S) > 1 THEN
        Answer(Resp("verify_email", 500, <<"Internal Server Error">>))
    ELSE
        LET u == Min(S) IN
        Commit(Put(u, [users[u] EXCEPT !.email_verification_token = None]),
               Resp("verify_email", 200, <<"Email verified successfully">>))

\* Faulty variant: The token stays on the row after verification.
verify_email_keeptoken(token) ==
    LET S == {u \in DOMAIN users : users[u].email_verification_token = Some(token)} IN
    IF S = {} THEN
        Answer(Resp("verify_email", 400, <<"Invalid or expired token">>))
    ELSE IF Cardinality(S) > 1 THEN
        Answer(Resp("verify_email", 500, <<"Internal Server Error">>))
    ELSE
        LET u == Min(S) IN
        Commit(Put(u, [users[u] EXCEPT !.email_verified = TRUE]),
               Resp("verify_email", 200, <<"Email verified successfully">>))

\* GET /auth/verify-email?token=
verify_email(token) ==
    LET S == {u \in DOMAIN users : users[u].email_verification_token = Some(token)} IN
    IF S = {} THEN
        Answer(Resp("verify_email", 400, <<"Invalid or expired token">>))
    ELSE IF Cardinality(S) > 1 THEN
        \* scalar_one_or_none raises MultipleResultsFound
        Answer(Resp("verify_email", 500, <<"Internal Server Error">>))
    ELSE
        LET u == Min(S) IN
        Commit(Put(u, [users[u] EXCEPT !.email_verified = TRUE,
                                       !.email_verification_token = None]),
               Resp("verify_email", 200, <<"Email verified successfully">>))

\* Faulty variant: Off-by-one threshold: the row locks on the 6th failure.
CountFailure_late(row) ==
    LET n == row.failed_attempts + 1 IN
    IF n > MaxAttempts
    THEN [row EXCEPT !.locked_until = Some(now + LockoutMinutes), !.failed_attempts = 0]
    ELSE [row EXCEPT !.failed_attempts = n]

\* Faulty variant: The counter is not reset when the row locks.
CountFailure_noreset(row) ==
    LET n == row.failed_attempts + 1 IN
    IF n >= MaxAttempts
    THEN [row EXCEPT !.locked_until = Some(now + LockoutMinutes), !.failed_attempts = n]
    ELSE [row EXCEPT !.failed_attempts = n]

\* Faulty variant: A failed attempt below the threshold clears the lock.
CountFailure_unlock(row) ==
    LET n == row.failed_attempts + 1 IN
    IF n >= MaxAttempts
    THEN [row EXCEPT !.locked_until = Some(now + LockoutMinutes), !.failed_attempts = 0]
    ELSE [row EXCEPT !.failed_attempts = n, !.locked_until = None]

\* login: the failed attempt is counted and may lock the row.
CountFailure(row) ==
    LET n == row.failed_attempts + 1 IN
    IF n >= MaxAttempts
    THEN [row EXCEPT !.locked_until = Some(now + LockoutMinutes), !.failed_attempts = 0]
    ELSE [row EXCEPT !.failed_attempts = n]

\* Faulty variant: The expired lock is left in place on success.
ResetOnSuccess_keeplock(row) == [row EXCEPT !.failed_attempts = 0]

\* Faulty variant: The counter is left as it is on success.
ResetOnSuccess_keepcount(row) == [row EXCEPT !.locked_until = None]

\* login: the reset on a successful login.
ResetOnSuccess(row) == [row EXCEPT !.failed_attempts = 0, !.locked_until = None]

\* Faulty variant: a lock is never enforced.
IsLocked_never(row) == FALSE

\* Faulty variant: The lock test compares the wrong way round.
IsLocked_reversed(row) == row.locked_until # None /\ row.locked_until[1] < now

\* login: the row is locked at the time of the request.
IsLocked(row) == row.locked_until # None /\ row.locked_until[1] > now

\* Faulty variant: a login for an email no account has is answered 404.
login_enumerating(email, password) ==
    LET user == get_user_by_email(email)
        authed_user == authenticate_user(email, password)
    IN
    IF user = None THEN
        Answer(Resp("login", 404, <<"User not found">>))
    ELSE IF IsLocked(users[user[1]]) THEN
        Answer([Resp("login", 403, <<"Account locked until">>)
                  EXCEPT !.until = users[user[1]].locked_until])
    ELSE IF authed_user = None THEN
        Commit(Put(user[1], CountFailure(users[user[1]])),
               Resp("login", 401, <<"Incorrect credentials">>))
    ELSE IF ~users[authed_user[1]].email_verified THEN
        Answer(Resp("login", 401, <<"Email not verified">>))
    ELSE
        LET u == authed_user[1] IN
        Commit(Put(u, ResetOnSuccess(users[u])),
               [Resp("login", 200, <<>>)
                  EXCEPT !.tokens = <<create_access_token(UuidStr(u)),
                                      create_refresh_token(UuidStr(u))>>])

\* POST /auth/login
login(email, password) ==
    LET user == get_user_by_email(email)
        authed_user == authenticate_user(email, password)
    IN
    IF user # None /\ IsLocked(users[user[1]]) THEN
        Answer([Resp("login", 403, <<"Account locked until">>)
                  EXCEPT !.until = users[user[1]].locked_until])
    ELSE IF authed_user = None THEN
        Commit(IF user = None THEN users
               ELSE Put(user[1], CountFailure(users[user[1]])),
               Resp("login", 401, <<"Incorrect credentials">>))
    ELSE IF ~users[authed_user[1]].email_verified THEN
        Answer(Resp("login", 401, <<"Email not verified">>))
    ELSE
        LET u == authed_user[1] IN
        Commit(Put(u, ResetOnSuccess(users[u])),
               [Resp("login", 200, <<>>)
                  EXCEPT !.tokens = <<create_access_token(UuidStr(u)),
                                      create_refresh_token(UuidStr(u))>>])

\* register: the events it logs, the success event at the end of the try
\* body and the failure event in the except clause.
register_events(email, password) ==
    IF PwErrors(password) # <<>> \/ get_user_by_email(email) # None
    THEN <<SecurityEvent("user_registration", FALSE)>>
    ELSE <<SecurityEvent("user_registration", TRUE)>>

\* Faulty variant: the rejection of a locked account is not logged.
login_events_quietlock(email, password) ==
    LET user == get_user_by_email(email)
        authed_user == authenticate_user(email, password)
    IN
    IF user # None /\ IsLocked(users[user[1]]) THEN <<>>
    ELSE IF authed_user = None THEN
        (IF user # None /\ users[user[1]].failed_attempts + 1 >= MaxAttempts
         THEN <<log_account_lockout>> ELSE <<>>)
        \o <<log_auth_failure>>
    ELSE IF ~users[authed_user[1]].email_verified THEN <<log_auth_failure>>
    ELSE <<log_auth_success>>

\* login: the events it logs, in the order of the log_* calls.
login_events(email, password) ==
    LET user == get_user_by_email(email)
        authed_user == authenticate_user(email, password)
    IN
    IF user # None /\ IsLocked(users[user[1]]) THEN <<log_auth_failure>>
    ELSE IF authed_user = None THEN
        (IF user # None /\ users[user[1]].failed_attempts + 1 >= MaxAttempts
         THEN <<log_account_lockout>> ELSE <<>>)
        \o <<log_auth_failure>>
    ELSE IF ~users[authed_user[1]].email_verified THEN <<log_auth_failure>>
    ELSE <<log_auth_success>>

(* ------------------------------ /users --------------------------------- *)
\* deps.get_current_user: the bearer token's subject resolved to a row.
get_current_user(c) == IF c \in DOMAIN users THEN Some(c) ELSE None

\* Faulty variant: any authenticated caller passes as an admin.
get_current_admin_user_open(c) ==
    IF get_current_user(c) = None THEN 401 ELSE 200

\* get_current_admin_user: 200, or the status that rejects the caller.
get_current_admin_user(c) ==
    IF get_current_user(c) = None THEN 401
    ELSE IF ~users[c].is_superuser THEN 403
    ELSE 200

Rejected(op, status) ==
    Answer(Resp(op, status,
                IF status = 403 THEN <<"Not enough permissions">>
                ELSE <<"Could not validate credentials">>))

NotFound(op) == Answer(Resp(op, 404, <<"User not found">>))

\* `User.is_superuser is True` / `User.is_active is True`: Python identity of
\* a column object with True, which is False before the query is built, so
\* the WHERE clause is the constant false.
ColumnIsTrue(row, column) == FALSE

\* update_me / update_user_admin: the optional password is applied.
SetPassword(row, password) ==
    IF password = None THEN row
    ELSE [row EXCEPT !.hashed_password = get_password_hash(password[1])]

\* PUT /users/me
update_me(c, email, password) ==
    IF get_current_user(c) = None THEN Rejected("update_me", 401)
    ELSE
    LET existing_user == IF email = None THEN None ELSE get_user_by_email(email[1]) IN
    IF email # None /\ existing_user # None /\ existing_user[1] # c THEN
        Answer(Resp("update_me", 400, <<"Email already registered">>))
    ELSE
        LET r1 == IF email = None THEN users[c]
                  ELSE [users[c] EXCEPT !.email = email[1], !.email_verified = FALSE]
        IN Commit(Put(c, SetPassword(r1, password)),
                  [Resp("update_me", 200, <<>>) EXCEPT !.id = Some(UuidStr(c))])

\* DELETE /users/me
delete_me(c) ==
    IF get_current_user(c) = None THEN Rejected("delete_me", 401)
    ELSE Commit(Drop(c), Resp("delete_me", 200, <<"Account deleted successfully">>))

\* GET /users/
list_users(c) ==
    IF get_current_admin_user(c) # 200 THEN
        Rejected("list_users", get_current_admin_user(c))
    ELSE Answer(Resp("list_users", 200, <<>>))

\* GET /users/{user_id}
get_user_by_id(c, t) ==
    IF get_current_admin_user(c) # 200 THEN
        Rejected("get_user_by_id", get_current_admin_user(c))
    ELSE IF get_user(t) = None THEN NotFound("get_user_by_id")
    ELSE Answer([Resp("get_user_by_id", 200, <<>>) EXCEPT !.id = Some(UuidStr(t))])

\* POST /users/
create_user_admin(c, email, password, is_superuser) ==
    IF get_current_admin_user(c) # 200 THEN
        Rejected("create_user_admin", get_current_admin_user(c))
    ELSE IF get_user_by_email(email) # None THEN
        \* create_user raises ValueError, turned into HTTP 400 here
        Answer(Resp("create_user_admin", 400, <<"User with this email already exists">>))
    ELSE
        [users |-> Put(nextId, [NewUser(email, password) EXCEPT
                                  !.is_superuser = is_superuser,
                                  !.email_verified = TRUE]),
         nextId |-> nextId + 1,
         nextTok |-> nextTok,
         resp |-> [Resp("create_user_admin", 201, <<>>) EXCEPT !.id = Some(UuidStr(nextId))]]

\* PUT /users/{user_id}
update_user_admin(c, t, email, password) ==
    IF get_current_admin_user(c) # 200 THEN
        Rejected("update_user_admin", get_current_admin_user(c))
    ELSE IF get_user(t) = None THEN NotFound("update_user_admin")
    ELSE
    LET existing_user == IF email = None THEN None ELSE get_user_by_email(email[1]) IN
    IF email # None /\ existing_user # None /\ existing_user[1] # t THEN
        Answer(Resp("update_user_admin", 400, <<"Email already registered">>))
    ELSE
        LET r1 == IF email = None THEN users[t] ELSE [users[t] EXCEPT !.email = email[1]]
        IN Commit(Put(t, SetPassword(r1, password)),
                  [Resp("update_user_admin", 200, <<>>) EXCEPT !.id = Some(UuidStr(t))])

\* POST /users/{user_id}/activate
activate_user(c, t) ==
    IF get_current_admin_user(c) # 200 THEN
        Rejected("activate_user", get_current_admin_user(c))
    ELSE IF get_user(t) = None THEN NotFound("activate_user")
    ELSE Commit(Put(t, [users[t] EXCEPT !.is_active = TRUE,
                                        !.failed_attempts = 0,
                                        !.locked_until = None]),
                Resp("activate_user", 200, <<"activated successfully">>))

\* Faulty variant: the last-admin check is left out.
deactivate_user_unguarded(c, t) ==
    IF get_current_admin_user(c) # 200 THEN
        Rejected("deactivate_user", get_current_admin_user(c))
    ELSE IF get_user(t) = None THEN NotFound("deactivate_user")
    ELSE
        Commit(Put(t, [users[t] EXCEPT !.is_active = FALSE]),
               Resp("deactivate_user", 200, <<"deactivated successfully">>))

\* POST /users/{user_id}/deactivate
deactivate_user(c, t) ==
    IF get_current_admin_user(c) # 200 THEN
        Rejected("deactivate_user", get_current_admin_user(c))
    ELSE IF get_user(t) = None THEN NotFound("deactivate_user")
    ELSE
    LET active_admins == {u \in DOMAIN users :
                            /\ ColumnIsTrue(users[u], "is_superuser")
                            /\ ColumnIsTrue(users[u], "is_active")} IN
    IF users[t].is_superuser /\ Cardinality(active_admins) <= 1 THEN
        Answer(Resp("deactivate_user", 400, <<"Cannot deactivate the last active admin">>))
    ELSE
        Commit(Put(t, [users[t] EXCEPT !.is_active = FALSE]),
               Resp("deactivate_user", 200, <<"deactivated successfully">>))

\* DELETE /users/{user_id}
delete_user_admin(c, t) ==
    IF get_current_admin_user(c) # 200 THEN
        Rejected("delete_user_admin", get_current_admin_user(c))
    ELSE IF get_user(t) = None THEN NotFound("delete_user_admin")
    ELSE
    LET all_admins == {u \in DOMAIN users : ColumnIsTrue(users[u], "is_superuser")} IN
    IF users[t].is_superuser /\ Cardinality(all_admins) <= 1 THEN
        Answer(Resp("delete_user_admin", 400, <<"Cannot delete the last admin">>))
    ELSE
        Commit(Drop(t), Resp("delete_user_admin", 200, <<"deleted successfully">>))

\* users.py: the event_type each handler logs when it succeeds.
EventTypeOf(op) ==
    CASE op = "update_me" -> "user_action"
      [] op = "delete_me" -> "account_deletion"
      [] op = "list_users" -> "user_action"
      [] op = "get_user_by_id" -> "user_action"
      [] op = "create_user_admin" -> "admin_user_creation"
      [] op = "update_user_admin" -> "admin_user_update"
      [] op = "activate_user" -> "admin_user_activation"
      [] op = "deactivate_user" -> "admin_user_deactivation"
      [] op = "delete_user_admin" -> "admin_user_deletion"

\* users.py: a handler logs one event just before it returns; a request
\* that is rejected logs none.
users_events(o) ==
    IF o.resp.status \in {200, 201}
    THEN <<SecurityEvent(EventTypeOf(o.resp.op), TRUE)>>
    ELSE <<>>

(* ------------------------------ limiter -------------------------------- *)
\* slowapi key_func get_remote_address: the client's address.
Clients == {"10.0.0.1", "10.0.0.2"}
Limited == {"register", "login"}
Limit(a) == IF a = "register" THEN RegisterLimit ELSE LoginLimit
NoHits == [k \in Clients |-> [a \in Limited |-> 0]]

\* Faulty variant: the request that reaches the limit is already refused.
Allowed_early(k, a) == hits[k][a] + 1 < Limit(a)

\* limiter.limit: the hit is counted first, and the request passes when the
\* count, this hit included, does not exceed the limit.
Allowed(k, a) == hits[k][a] + 1 <= Limit(a)

\* Faulty variant: the limit is tested after the handler has run, and only
\* the response is replaced.
conditional_limit_late(k, a, o) ==
    IF Allowed(k, a) THEN o
    ELSE [o EXCEPT !.resp = Resp(a, 429, <<"Rate limit exceeded">>)]

\* conditional_limit with limits enforced: the handler's outcome o, or the
\* 429 of _rate_limit_exceeded_handler without the handler being called.
conditional_limit(k, a, o) ==
    IF Allowed(k, a) THEN o
    ELSE Answer(Resp(a, 429, <<"Rate limit exceeded">>))

(* ------------------------------ history -------------------------------- *)
\* The run of consecutive login requests for one email that carried a wrong
\* secret: n counts them up to 5; clean says the run began on a row with
\* failed_attempts = 0 and no lock in force; due is the end of the lockout
\* window counted from the 5th of them; sixth says a login with the correct
\* secret was made inside that window; ended says the last request was the
\* login with the correct secret that followed the window.
NoStreak ==
    [email |-> "", n |-> 0, clean |-> FALSE, due |-> None, sixth |-> FALSE, ended |-> FALSE]

Armed(email) == streak.email = email /\ streak.n = 5
InWindow == streak.due # None /\ now < streak.due[1]

StreakAfterLogin(email, password) ==
    LET user == get_user_by_email(email) IN
    IF user = None THEN NoStreak
    ELSE
    LET row == users[user[1]]
        wrong == ~verify_password(password, row.hashed_password)
    IN
    IF Armed(email) /\ InWindow THEN
        IF wrong THEN streak ELSE [streak EXCEPT !.sixth = TRUE]
    ELSE IF Armed(email) /\ ~wrong THEN
        [NoStreak EXCEPT !.email = email, !.clean = streak.clean,
                         !.sixth = streak.sixth, !.ended = TRUE]
    ELSE IF ~wrong THEN NoStreak
    ELSE IF streak.email = email /\ streak.n \in 1..4 THEN
        [streak EXCEPT !.n = @ + 1,
                       !.due = IF streak.n + 1 = 5 THEN Some(now + 15) ELSE None]
    ELSE
        [NoStreak EXCEPT !.email = email, !.n = 1,
                         !.clean = (row.failed_attempts = 0 /\ ~IsLocked(row))]

(* ------------------------- requests in flight -------------------------- *)
\* Requests handled at the same time, each with an AsyncSession of its own.
Slots == {1, 2}

\* What a session holds between two awaits of its handler: the handler it
\* is in, the request's inputs and the row it has loaded (Optional).
NoSession == [pc |-> "idle", email |-> "", password |-> <<>>, token |-> 0, snap |-> None]
NoSessions == [s \in Slots |-> NoSession]

\* session.execute(select(User)...): the row is loaded into the session as
\* it is in the table at that moment.
Load(user) ==
    IF user = None THEN None ELSE Some([id |-> user[1], row |-> users[user[1]]])

\* session.commit(): the UPDATE sets the columns whose value the handler
\* changed since the row was loaded, and no other column.
WriteBack(snap, new) ==
    LET stored == users[snap.id] IN
    Put(snap.id, [c \in DOMAIN stored |->
                    IF new[c] # snap.row[c] THEN new[c] ELSE stored[c]])

\* crud authenticate_user on the row the session has loaded.
Authenticated(row, password) ==
    verify_password(password, row.hashed_password) /\ row.is_active

NoTally ==
    [verifs |-> 0,
     created |-> [e \in Emails |-> 0],
     raised |-> {},
     verified |-> [t \in 1..MaxUsers |-> 0]]

(* ------------------------------ actions -------------------------------- *)
\* conftest.py seeds the table with one verified, active administrator.
Init ==
    /\ users = [u \in {1} |-> SeedAdmin]
    /\ nextId = 2
    /\ nextTok = 1
    /\ now = 0
    /\ resp = NoResp
    /\ streak = NoStreak
    /\ used = {}
    /\ replayed = {}
    /\ events = <<>>
    /\ hits = NoHits
    /\ seen = NoHits
    /\ settings = DefaultSettings
    /\ sessions = NoSessions
    /\ tally = NoTally

Idle == resp = NoResp

\* One request is handled: its outcome o becomes the state.
Handle(o) ==
    /\ Idle
    /\ o.nextId <= MaxUsers + 1
    /\ users' = o.users
    /\ nextId' = o.nextId
    /\ nextTok' = o.nextTok
    /\ resp' = o.resp
    /\ UNCHANGED <<now, settings, sessions, tally>>

\* Time passes; a limiter window that has run its length is over.
Tick ==
    /\ Idle
    /\ now + TickStep <= MaxTime
    /\ now' = now + TickStep
    /\ hits' = IF TickStep >= WindowMinutes THEN NoHits ELSE hits
    /\ seen' = IF TickStep >= WindowMinutes THEN NoHits ELSE seen
    /\ UNCHANGED <<users, nextId, nextTok, resp, streak, used, replayed,
                   events, settings, sessions, tally>>

\* The response is sent; the service is ready for the next request.
Respond ==
    /\ ~Idle
    /\ resp' = NoResp
    /\ events' = <<>>
    /\ UNCHANGED <<users, now, nextId, nextTok, streak, used, replayed,
                   hits, seen, settings, sessions, tally>>

Register(e, p) ==
    /\ Handle(register(e, p))
    /\ events' = register_events(e, p)
    /\ streak' = NoStreak /\ UNCHANGED <<used, replayed>>

VerifyEmail(t) ==
    /\ Handle(verify_email(t))
    /\ events' = <<>>
    /\ streak' = NoStreak
    /\ used' = IF verify_email(t).resp.status = 200 THEN used \cup {t} ELSE used
    /\ replayed' = IF t \in used THEN replayed \cup {t} ELSE replayed

Login(e, p) ==
    /\ Handle(login(e, p))
    /\ events' = login_events(e, p)
    /\ streak' = StreakAfterLogin(e, p) /\ UNCHANGED <<used, replayed>>

\* A request of the /users router: it ends any run of login attempts.
Other(o) ==
    /\ Handle(o)
    /\ events' = users_events(o)
    /\ streak' = NoStreak /\ UNCHANGED <<used, replayed>>

UpdateMe(c, e, p) == Other(update_me(c, e, p))
DeleteMe(c) == Other(delete_me(c))
ListUsers(c) == Other(list_users(c))
GetUserById(c, t) == Other(get_user_by_id(c, t))
CreateUserAdmin(c, e, p, s) == Other(create_user_admin(c, e, p, s))
UpdateUserAdmin(c, t, e, p) == Other(update_user_admin(c, t, e, p))
ActivateUser(c, t) == Other(activate_user(c, t))
DeactivateUser(c, t) == Other(deactivate_user(c, t))
DeleteUserAdmin(c, t) == Other(delete_user_admin(c, t))

\* conditional_limit under pytest without enable_test_rate_limits: the
\* handler is called directly and the limiter's storage is not touched.
Unlimited(A) == A /\ UNCHANGED <<hits, seen>>

\* The inputs of the requests.  Requests that store a secret store PwValid,
\* so PwWrong is a wrong secret for every account.
StoredPasswords == {PwValid}
OptEmails == {None} \cup {Some(e) : e \in Emails}
OptPasswords == {None} \cup {Some(p) : p \in StoredPasswords}
Tokens == 1..MaxUsers

Next ==
    \/ Tick
    \/ Respond
    \/ \E e \in Emails, p \in Passwords : Unlimited(Register(e, p))
    \/ \E t \in Tokens : Unlimited(VerifyEmail(t))
    \/ \E e \in Emails, p \in Passwords : Unlimited(Login(e, p))
    \/ \E c \in Ids, e \in OptEmails, p \in OptPasswords : Unlimited(UpdateMe(c, e, p))
    \/ \E c \in Ids : Unlimited(DeleteMe(c))
    \/ \E c \in Ids : Unlimited(ListUsers(c))
    \/ \E c \in Ids, t \in Ids : Unlimited(GetUserById(c, t))
    \/ \E c \in Ids, e \in Emails, p \in StoredPasswords, s \in BOOLEAN :
          Unlimited(CreateUserAdmin(c, e, p, s))
    \/ \E c \in Ids, t \in Ids, e \in OptEmails, p \in OptPasswords :
          Unlimited(UpdateUserAdmin(c, t, e, p))
    \/ \E c \in Ids, t \in Ids : Unlimited(ActivateUser(c, t))
    \/ \E c \in Ids, t \in Ids : Unlimited(DeactivateUser(c, t))
    \/ \E c \in Ids, t \in Ids : Unlimited(DeleteUserAdmin(c, t))

Spec == Init /\ [][Next]_vars

\* conditional_limit with limits enforced: the hit of client k is counted,
\* then the request reaches the handler or is refused.  A client sends at
\* most one request beyond the limit in a window, and the clients together
\* at most MaxBurst.
Burst ==
    LET Total(k) == hits[k]["register"] + hits[k]["login"]
    IN Total("10.0.0.1") + Total("10.0.0.2")

Count(k, a) ==
    /\ hits[k][a] <= Limit(a)
    /\ Burst < MaxBurst
    /\ hits' = [hits EXCEPT ![k][a] = @ + 1]
    /\ seen' = [seen EXCEPT ![k][a] = @ + 1]

Refuse(k, a, o) ==
    /\ Handle(conditional_limit(k, a, o))
    /\ events' = <<>>
    /\ UNCHANGED <<streak, used, replayed>>

LimitedRegister(k, e, p) ==
    /\ Count(k, "register")
    /\ IF Allowed(k, "register") THEN Register(e, p)
       ELSE Refuse(k, "register", register(e, p))

LimitedLogin(k, e, p) ==
    /\ Count(k, "login")
    /\ IF Allowed(k, "login") THEN Login(e, p)
       ELSE Refuse(k, "login", login(e, p))

\* The rate-limited endpoints with rate limiting enforced (production).
\* The registrations tried here carry a secret that fails the complexity
\* rules, so the table keeps its one account and alice stays unknown.
NextLimit ==
    \/ Tick
    \/ Respond
    \/ \E k \in Clients, e \in Emails : LimitedRegister(k, e, PwWrong)
    \/ \E k \in Clients, e \in Emails, p \in Passwords : LimitedLogin(k, e, p)

SpecLimit == Init /\ [][NextLimit]_vars

\* The /auth router alone, started with any of the configurations below and
\* registering with secrets that violate any combination of the complexity
\* rules.
SettingsChoices ==
    {DefaultSettings, [MAX_LOGIN_ATTEMPTS |-> 3, LOCKOUT_DURATION_MINUTES |-> 10]}

Rules == {"length", "upper", "lower", "digit", "special"}

\* A secret that satisfies exactly the rules in ok: one character of each
\* class asked for, filled up with "_" (which is in no class) to 8
\* characters, or to 7 when the length rule is to be violated.
Probe(ok) ==
    LET core == (IF "upper" \in ok THEN <<"Q">> ELSE <<>>)
                \o (IF "lower" \in ok THEN <<"q">> ELSE <<>>)
                \o (IF "digit" \in ok THEN <<"7">> ELSE <<>>)
                \o (IF "special" \in ok THEN <<"?">> ELSE <<>>)
        length == IF "length" \in ok THEN 8 ELSE 7
    IN core \o [i \in 1..(length - Len(core)) |-> "_"]

ProbePasswords == {Probe(ok) : ok \in SUBSET Rules}

InitAuth ==
    /\ users = [u \in {1} |-> SeedAdmin]
    /\ nextId = 2
    /\ nextTok = 1
    /\ now = 0
    /\ resp = NoResp
    /\ streak = NoStreak
    /\ used = {}
    /\ replayed = {}
    /\ events = <<>>
    /\ hits = NoHits
    /\ seen = NoHits
    /\ settings \in SettingsChoices
    /\ sessions = NoSessions
    /\ tally = NoTally

NextAuth ==
    \/ Tick
    \/ Respond
    \/ \E e \in Emails, p \in ProbePasswords : Unlimited(Register(e, p))
    \/ \E t \in Tokens : Unlimited(VerifyEmail(t))
    \/ \E e \in Emails, p \in Passwords \cup {Probe(Rules)} : Unlimited(Login(e, p))

SpecAuth == InitAuth /\ [][NextAuth]_vars

\* The /auth handlers running concurrently.  Each handler is cut at its
\* awaits that touch the table: the SELECT that loads the row and the commit
\* that writes it.  Between the two, the other session may take its steps.
\* The clock does not advance while a request is in flight.
Frame == UNCHANGED <<now, resp, streak, used, replayed, events, hits, seen, settings>>

Begin(s, pc, e, p, t, user) ==
    sessions' = [sessions EXCEPT ![s] =
                   [pc |-> pc, email |-> e, password |-> p, token |-> t, snap |-> Load(user)]]

End(s) == sessions' = [sessions EXCEPT ![s] = NoSession]

\* login, auth.py:117: the row is loaded.
LoginRead(s, e, p) ==
    /\ sessions[s].pc = "idle"
    /\ tally.verifs < MaxVerifs
    /\ Begin(s, "login", e, p, 0, get_user_by_email(e))
    /\ UNCHANGED <<users, nextId, nextTok, tally>>
    /\ Frame

\* login, auth.py:120-163: the lock test and authenticate_user on the loaded
\* row, then the commit of the counted failure or of the reset.
LoginCommit(s) ==
    LET ses == sessions[s]
        snap == ses.snap[1]
        failed == ~Authenticated(snap.row, ses.password)
        new == IF failed THEN CountFailure(snap.row) ELSE ResetOnSuccess(snap.row)
    IN
    /\ ses.pc = "login"
    /\ IF ses.snap = None THEN UNCHANGED <<users, tally>>
       ELSE IF IsLocked(snap.row) THEN UNCHANGED <<users, tally>>
       ELSE IF ~failed /\ ~snap.row.email_verified THEN UNCHANGED <<users, tally>>
       ELSE /\ users' = WriteBack(snap, new)
            /\ tally' = [tally EXCEPT !.verifs =
                            IF users'[snap.id].failed_attempts = 0 THEN 0
                            ELSE IF failed THEN @ + 1 ELSE @]
    /\ End(s)
    /\ UNCHANGED <<nextId, nextTok>>
    /\ Frame

\* register, crud create_user lines 32-34: the uniqueness check.  An email
\* that is taken raises ValueError at once.
RegisterRead(s, e, p) ==
    /\ sessions[s].pc = "idle"
    /\ IF get_user_by_email(e) # None
       THEN /\ tally' = [tally EXCEPT !.raised = @ \cup {"ValueError"}]
            /\ UNCHANGED sessions
       ELSE /\ Begin(s, "register", e, p, 0, None)
            /\ UNCHANGED tally
    /\ UNCHANGED <<users, nextId, nextTok>>
    /\ Frame

\* register, crud create_user lines 46-47 and auth.py:68-72: the INSERT and
\* the token.  User.email is unique, so the INSERT of an email that has been
\* taken since the check raises IntegrityError.
RegisterInsert(s) ==
    LET ses == sessions[s] IN
    /\ ses.pc = "register"
    /\ IF get_user_by_email(ses.email) # None
       THEN /\ tally' = [tally EXCEPT !.raised = @ \cup {"IntegrityError"}]
            /\ UNCHANGED <<users, nextId, nextTok>>
       ELSE /\ users' = Put(nextId, [NewUser(ses.email, ses.password) EXCEPT
                                      !.email_verification_token = Some(nextTok),
                                      !.email_verified = FALSE])
            /\ nextId' = nextId + 1
            /\ nextTok' = nextTok + 1
            /\ tally' = [tally EXCEPT !.created[ses.email] = @ + 1]
    /\ End(s)
    /\ Frame

\* verify_email, auth.py:101-104: the row holding the token is loaded; no
\* such row is answered 400 at once.
VerifyRead(s, t) ==
    LET S == {u \in DOMAIN users : users[u].email_verification_token = Some(t)} IN
    /\ sessions[s].pc = "idle"
    /\ IF S = {} THEN UNCHANGED sessions
       ELSE Begin(s, "verify_email", "", <<>>, t, Some(Min(S)))
    /\ UNCHANGED <<users, nextId, nextTok, tally>>
    /\ Frame

\* verify_email, auth.py:105-108: the flag and the cleared token are
\* committed and the request is answered 200.
VerifyCommit(s) ==
    LET ses == sessions[s]
        snap == ses.snap[1]
    IN
    /\ ses.pc = "verify_email"
    /\ users' = WriteBack(snap, [snap.row EXCEPT !.email_verified = TRUE,
                                                 !.email_verification_token = None])
    /\ tally' = [tally EXCEPT !.verified[ses.token] = @ + 1]
    /\ End(s)
    /\ UNCHANGED <<nextId, nextTok>>
    /\ Frame

TickRace ==
    /\ \A s \in Slots : sessions[s].pc = "idle"
    /\ Tick

NextRace ==
    \/ TickRace
    \/ \E s \in Slots, p \in Passwords : LoginRead(s, AdminEmail, p)
    \/ \E s \in Slots : LoginCommit(s)
    \/ \E s \in Slots, e \in Emails : RegisterRead(s, e, PwValid)
    \/ \E s \in Slots : RegisterInsert(s)
    \/ \E s \in Slots, t \in Tokens : VerifyRead(s, t)
    \/ \E s \in Slots : VerifyCommit(s)

SpecRace == Init /\ [][NextRace]_vars

\* Every outcome a request can have in the current state.
Outcomes ==
    {register(e, p) : e \in Emails, p \in Passwords}
    \cup {verify_email(t) : t \in Tokens}
    \cup {login(e, p) : e \in Emails, p \in Passwords}
    \cup {update_me(c, e, p) : c \in Ids, e \in OptEmails, p \in OptPasswords}
    \cup {delete_me(c) : c \in Ids}
    \cup {list_users(c) : c \in Ids}
    \cup {get_user_by_id(c, t) : c \in Ids, t \in Ids}
    \cup {create_user_admin(c, e, p, s) :
              c \in Ids, e \in Emails, p \in StoredPasswords, s \in BOOLEAN}
    \cup {update_user_admin(c, t, e, p) :
              c \in Ids, t \in Ids, e \in OptEmails, p \in OptPasswords}
    \cup {activate_user(c, t) : c \in Ids, t \in Ids}
    \cup {deactivate_user(c, t) : c \in Ids, t \in Ids}
    \cup {delete_user_admin(c, t) : c \in Ids, t \in Ids}

(* ------------------------------ properties ----------------------------- *)
\* The row the email resolves to (when there is one) and whether the secret
\* is the one stored for it.
RowOf(e) == users[get_user_by_email(e)[1]]
Known(e) == get_user_by_email(e) # None
Correct(e, p) == verify_password(p, RowOf(e).hashed_password)
Unlocked(row) == row.locked_until = None \/ row.locked_until[1] <= now
LockedDetail == <<"Account locked until">>

\* C1 as stated: for every account, after 5 consecutive logins with a wrong
\* secret (counted from failed_attempts = 0 on an unlocked account), a login
\* with the correct secret inside the 15-minute window is rejected with 403
\* 'Account locked until', and a login with the correct secret after the
\* window returns tokens and leaves failed_attempts = 0.
C1_EveryAccount ==
    Idle => \A e \in Emails, p \in Passwords :
        (Armed(e) /\ streak.clean /\ Known(e) /\ Correct(e, p)) =>
            LET u == get_user_by_email(e)[1]
                o == login(e, p)
            IN IF InWindow
               THEN /\ o.resp.status = 403
                    /\ o.resp.detail = LockedDetail
                    /\ o.resp.until = streak.due
               ELSE /\ o.resp.status = 200
                    /\ Len(o.resp.tokens) = 2
                    /\ o.users[u].failed_attempts = 0

\* C1 (amended): the same scenario, where the login after the window is
\* claimed to succeed only for an account that is active and email-verified.
C1_LockoutScenario ==
    Idle => \A e \in Emails, p \in Passwords :
        (Armed(e) /\ streak.clean /\ Known(e) /\ Correct(e, p)) =>
            LET u == get_user_by_email(e)[1]
                o == login(e, p)
            IN IF InWindow
               THEN /\ o.resp.status = 403
                    /\ o.resp.detail = LockedDetail
                    /\ o.resp.until = streak.due
               ELSE (users[u].is_active /\ users[u].email_verified) =>
                    /\ o.resp.status = 200
                    /\ Len(o.resp.tokens) = 2
                    /\ o.users[u].failed_attempts = 0

\* C1 witness: five wrong logins, a rejected correct login inside the
\* window, and the correct login after the window has just succeeded.
C1_Witness ==
    /\ streak.ended /\ streak.clean /\ streak.sixth
    /\ resp.op = "login" /\ resp.status = 200

\* C2: a login on an existing, unlocked account whose credential check fails
\* adds 1 to failed_attempts; when that reaches 5 the row gets
\* locked_until = now + 15 and failed_attempts = 0, otherwise the new count
\* is stored and locked_until is untouched; the response is 401 'Incorrect
\* credentials' either way, and no other row changes.
C2_FailedLoginCounts ==
    Idle => \A e \in Emails, p \in Passwords :
        (Known(e) /\ Unlocked(RowOf(e)) /\ authenticate_user(e, p) = None) =>
            LET u == get_user_by_email(e)[1]
                o == login(e, p)
                n == users[u].failed_attempts + 1
            IN /\ o.resp.status = 401
               /\ o.resp.detail = <<"Incorrect credentials">>
               /\ DOMAIN o.users = DOMAIN users
               /\ \A x \in DOMAIN users \ {u} : o.users[x] = users[x]
               /\ IF n >= 5
                  THEN o.users[u] = [users[u] EXCEPT !.locked_until = Some(now + 15),
                                                     !.failed_attempts = 0]
                  ELSE o.users[u] = [users[u] EXCEPT !.failed_attempts = n]

\* C2 witness: a failed login has just been answered with 401 and it locked
\* the row.
C2_Witness ==
    /\ resp.op = "login" /\ resp.status = 401
    /\ resp.detail = <<"Incorrect credentials">>
    /\ \E u \in DOMAIN users :
          /\ users[u].locked_until = Some(now + 15)
          /\ users[u].failed_attempts = 0

\* C3: a login on a locked account (locked_until > now) is answered 403 with
\* the unlock time, whatever the secret, and changes nothing in the table.
C3_LockedRejected ==
    Idle => \A e \in Emails, p \in Passwords :
        (Known(e) /\ RowOf(e).locked_until # None /\ RowOf(e).locked_until[1] > now) =>
            LET o == login(e, p)
            IN /\ o.resp.status = 403
               /\ o.resp.detail = LockedDetail
               /\ o.resp.until = RowOf(e).locked_until
               /\ o.users = users

\* C3 witness: a login made some time after the lock was set has just been
\* answered 403 with the time the lock was given when it was set.
C3_Witness ==
    /\ resp.op = "login" /\ resp.status = 403
    /\ resp.until # None /\ resp.until[1] < now + 15
    /\ \E u \in DOMAIN users : users[u].locked_until = resp.until

\* C4: a login with the correct secret on an existing, active, email-verified,
\* unlocked account is answered 200, sets failed_attempts = 0 and
\* locked_until = null, and returns an access token and a refresh token whose
\* subject is the account's id.
C4_SuccessfulLogin ==
    Idle => \A e \in Emails, p \in Passwords :
        (/\ Known(e) /\ RowOf(e).is_active /\ RowOf(e).email_verified
         /\ Unlocked(RowOf(e)) /\ Correct(e, p)) =>
            LET u == get_user_by_email(e)[1]
                o == login(e, p)
            IN /\ o.resp.status = 200
               /\ o.users[u].failed_attempts = 0
               /\ o.users[u].locked_until = None
               /\ Len(o.resp.tokens) = 2
               /\ o.resp.tokens[1].kind = "access"
               /\ o.resp.tokens[1].sub = UuidStr(u)
               /\ o.resp.tokens[2].kind = "refresh"
               /\ o.resp.tokens[2].sub = UuidStr(u)

\* C4 witness: a registered (non-seeded) account has just logged in and got
\* its two tokens.
C4_Witness ==
    /\ resp.op = "login" /\ resp.status = 200
    /\ Len(resp.tokens) = 2
    /\ \E u \in DOMAIN users :
          /\ ~users[u].is_superuser
          /\ resp.tokens[1].sub = UuidStr(u)
          /\ users[u].failed_attempts = 0 /\ users[u].locked_until = None

\* C5 as stated: a login with the correct secret on an account whose email
\* is not verified is always answered 401 'Email not verified' and changes
\* no field of any account.
C5_AlwaysNotVerified ==
    Idle => \A e \in Emails, p \in Passwords :
        (Known(e) /\ ~RowOf(e).email_verified /\ Correct(e, p)) =>
            LET o == login(e, p)
            IN /\ o.resp.status = 401
               /\ o.resp.detail = <<"Email not verified">>
               /\ o.users = users

\* C5 (amended): the same, for an account that is active and unlocked.
C5_NotVerified ==
    Idle => \A e \in Emails, p \in Passwords :
        (/\ Known(e) /\ ~RowOf(e).email_verified /\ Correct(e, p)
         /\ RowOf(e).is_active /\ Unlocked(RowOf(e))) =>
            LET o == login(e, p)
            IN /\ o.resp.status = 401
               /\ o.resp.detail = <<"Email not verified">>
               /\ o.users = users

\* C5 witness: a login has just been answered 'Email not verified' for an
\* account that carries failed attempts, which the login left in place.
C5_Witness ==
    /\ resp.op = "login" /\ resp.status = 401
    /\ resp.detail = <<"Email not verified">>
    /\ \E u \in DOMAIN users :
          ~users[u].email_verified /\ users[u].failed_attempts > 0

\* C6: in every reachable state every failed_attempts is in 0..4, and every
\* request that gives a row a new locked_until, or that completes a
\* successful login for it, leaves that row with failed_attempts = 0.
C6_CounterBounded ==
    /\ \A u \in DOMAIN users : users[u].failed_attempts \in 0..4
    /\ Idle => \A o \in Outcomes : \A u \in DOMAIN o.users :
          (\/ u \notin DOMAIN users
           \/ o.users[u].locked_until # users[u].locked_until
           \/ /\ o.resp.op = "login" /\ o.resp.status = 200
              /\ o.resp.tokens[1].sub = UuidStr(u))
          => o.users[u].failed_attempts = 0

\* C6 witness: the fifth failure of a run has locked the row and the counter
\* is back at 0.
C6_Witness ==
    \E u \in DOMAIN users :
        /\ streak.n = 5 /\ streak.email = users[u].email
        /\ IsLocked(users[u])
        /\ users[u].failed_attempts = 0

ActiveSuperusers(t) == {u \in DOMAIN t : t[u].is_superuser /\ t[u].is_active}

\* C7 as stated: no operation of the service removes the last active
\* superuser: if an active superuser exists before a step, one exists after.
C7_LastSuperuserKept ==
    [][ActiveSuperusers(users) # {} => ActiveSuperusers(users') # {}]_vars

\* C8 as stated: a Register whose email belongs to an existing account (and
\* whose secret passes the complexity rules) is answered 400, and the table
\* still holds exactly one account with that email, unchanged.
C8_DuplicateIs400 ==
    Idle => \A e \in Emails, p \in Passwords :
        (Known(e) /\ PwErrors(p) = <<>>) =>
            LET o == register(e, p)
            IN /\ o.resp.status = 400
               /\ o.users = users
               /\ Cardinality({u \in DOMAIN o.users : o.users[u].email = e}) = 1

\* C9: for an email not yet registered and a secret that passes the
\* complexity rules, Register is answered 201 and stores an unverified row
\* with a token; VerifyEmail with that token, made right after, is answered
\* 200 and leaves the row with email_verified = true and no token.
C9_RegisterThenVerify ==
    /\ Idle => \A e \in Emails, p \in Passwords :
          (~Known(e) /\ PwErrors(p) = <<>>) =>
              LET o == register(e, p)
              IN /\ o.resp.status = 201
                 /\ o.users[nextId].email = e
                 /\ ~o.users[nextId].email_verified
                 /\ o.users[nextId].email_verification_token # None
    /\ (resp.op = "register" /\ resp.status = 201) =>
          LET u == resp.id[1].uuid
              t == users[u].email_verification_token
          IN /\ t # None
             /\ LET o == verify_email(t[1])
                IN /\ o.resp.status = 200
                   /\ o.users[u].email_verified
                   /\ o.users[u].email_verification_token = None

\* C9 witness: the registered account has just been verified with the token
\* Register generated.
C9_Witness ==
    /\ resp.op = "verify_email" /\ resp.status = 200
    /\ \E u \in DOMAIN users :
          /\ ~users[u].is_superuser
          /\ users[u].email_verified
          /\ users[u].email_verification_token = None
          /\ used # {}

\* C10: VerifyEmail with a token that no account holds is answered 400
\* 'Invalid or expired token' and changes nothing; a token that VerifyEmail
\* has accepted is such a token ever after.
C10_TokenSingleUse ==
    Idle => \A t \in Tokens :
        (\/ \A u \in DOMAIN users : users[u].email_verification_token # Some(t)
         \/ t \in used) =>
            LET o == verify_email(t)
            IN /\ o.resp.status = 400
               /\ o.resp.detail = <<"Invalid or expired token">>
               /\ o.users = users

\* C10 witness: a token that had been accepted was presented again and the
\* request has just been answered 400.
C10_Witness ==
    /\ replayed # {}
    /\ resp.op = "verify_email" /\ resp.status = 400

\* ------------------------------------------------------------------------
\* C11.  With rate limiting enforced, the first Limit(a) requests a client
\* sends to endpoint a in a window reach the handler and have the handler's
\* outcome, and the next one is answered 429; what another client has sent
\* makes no difference.  `seen` counts the requests of each client in the
\* current window.
Refused(a) == Answer(Resp(a, 429, <<"Rate limit exceeded">>))

C11_RateLimit ==
    /\ Idle =>
          \A k \in Clients, e \in Emails, p \in Passwords :
             /\ seen[k]["register"] < RegisterLimit =>
                   conditional_limit(k, "register", register(e, p)) = register(e, p)
             /\ seen[k]["register"] >= RegisterLimit =>
                   conditional_limit(k, "register", register(e, p)) = Refused("register")
             /\ seen[k]["login"] < LoginLimit =>
                   conditional_limit(k, "login", login(e, p)) = login(e, p)
             /\ seen[k]["login"] >= LoginLimit =>
                   conditional_limit(k, "login", login(e, p)) = Refused("login")
    /\ resp.status = 429 => \E k \in Clients : seen[k][resp.op] = Limit(resp.op) + 1
    /\ resp.op \in Limited /\ resp.status # 429 =>
          \E k \in Clients : seen[k][resp.op] \in 1..Limit(resp.op)

\* One client has had its eleventh login of the window refused, and a login
\* of the other client has since reached the handler.
C11_Witness ==
    /\ seen["10.0.0.1"]["login"] = LoginLimit + 1
    /\ seen["10.0.0.2"]["login"] = 1
    /\ resp.op = "login"
    /\ resp.status \in {200, 401, 403}

\* ------------------------------------------------------------------------
\* C12.  A Register or Login refused by the rate limiter does not run the
\* handler: no account, identifier or token changes, no failed attempt is
\* counted, no lock is set and no security event is logged.
C12_RefusedNoEffect ==
    [][resp'.status = 429 =>
          /\ users' = users
          /\ nextId' = nextId
          /\ nextTok' = nextTok
          /\ streak' = streak
          /\ events' = <<>>]_vars

\* A login is refused while an account is one failed attempt from its lock.
C12_Witness ==
    /\ resp.op = "login"
    /\ resp.status = 429
    /\ \E u \in DOMAIN users :
          users[u].failed_attempts = MaxAttempts - 1 /\ users[u].locked_until = None

\* ------------------------------------------------------------------------
\* C13.  A login for an email no account has, and a login with a wrong
\* secret for an account that is not locked, get the same answer: 401 with
\* the detail "Incorrect credentials".  The login for the unknown email
\* changes no account.
InvalidCredentials == Resp("login", 401, <<"Incorrect credentials">>)

C13_SameFailureSignal ==
    Idle =>
       \A e \in Emails, p \in Passwords :
          /\ ~Known(e) =>
                /\ login(e, p).resp = InvalidCredentials
                /\ login(e, p).users = users
          /\ Known(e) /\ Unlocked(RowOf(e)) /\ ~Correct(e, p) =>
                login(e, p).resp = InvalidCredentials

\* A login for an unknown email has been answered while an account exists:
\* the answer is the one a wrong secret gets, and no attempt was counted.
C13_Witness ==
    /\ resp = InvalidCredentials
    /\ \E e \in Emails : ~Known(e)
    /\ \A u \in DOMAIN users :
          users[u].failed_attempts = 0 /\ users[u].locked_until = None

\* ------------------------------------------------------------------------
\* C14.  When an admin asks to deactivate or to delete the only superuser
\* there is, the request is answered 400 with the detail "Cannot deactivate
\* the last active admin" or "Cannot delete the last admin", and no account
\* changes.
Superusers == {u \in DOMAIN users : users[u].is_superuser}

C14_LastAdminRefused ==
    Idle =>
       \A c \in Ids, t \in Ids :
          /\ get_current_admin_user(c) = 200
          /\ Superusers = {t}
          =>
          /\ deactivate_user(c, t) =
                Answer(Resp("deactivate_user", 400,
                            <<"Cannot deactivate the last active admin">>))
          /\ delete_user_admin(c, t) =
                Answer(Resp("delete_user_admin", 400, <<"Cannot delete the last admin">>))

\* The only superuser has been refused its own deactivation while a second,
\* ordinary account exists.
C14_Witness ==
    /\ resp.op = "deactivate_user"
    /\ resp.status = 400
    /\ Cardinality(Superusers) = 1
    /\ Cardinality(DOMAIN users) = 2
    /\ \A u \in Superusers : users[u].is_active

\* ------------------------------------------------------------------------
\* C15.  A secret is accepted exactly when it violates no rule (length >= 8,
\* an uppercase letter, a lowercase letter, a digit, a symbol of the
\* punctuation set); a rejected registration is answered 400 and its detail
\* holds the message of every violated rule and of no satisfied rule.
Violated(p) ==
    {r \in Rules :
        \/ r = "length" /\ Len(p) < 8
        \/ r = "upper" /\ \A i \in 1..Len(p) : p[i] \notin UpperChars
        \/ r = "lower" /\ \A i \in 1..Len(p) : p[i] \notin LowerChars
        \/ r = "digit" /\ \A i \in 1..Len(p) : p[i] \notin DigitChars
        \/ r = "special" /\ \A i \in 1..Len(p) : p[i] \notin SpecialChars}

Message(r) ==
    CASE r = "length" -> "Password must be at least 8 characters long."
      [] r = "upper" -> "Password must contain at least one uppercase letter."
      [] r = "lower" -> "Password must contain at least one lowercase letter."
      [] r = "digit" -> "Password must contain at least one digit."
      [] r = "special" -> "Password must contain at least one special character."

Messages(detail) == {detail[i] : i \in 1..Len(detail)}

C15_PasswordComplexity ==
    /\ {Violated(p) : p \in ProbePasswords \cup Passwords} = SUBSET Rules
    /\ Idle =>
          \A e \in Emails, p \in ProbePasswords \cup Passwords :
             /\ (PwErrors(p) = <<>>) <=> (Violated(p) = {})
             /\ (register(e, p).resp.status = 400) <=> (Violated(p) # {})
             /\ Violated(p) # {} =>
                   Messages(register(e, p).resp.detail) = {Message(r) : r \in Violated(p)}

\* A registration has been rejected for a secret that violates two of the
\* five rules; its detail holds those two messages.
C15_Witness ==
    /\ resp.op = "register"
    /\ resp.status = 400
    /\ resp.detail = <<Message("length"), Message("digit")>>

\* ------------------------------------------------------------------------
\* C17.  The failed login that brings an account's count of failed attempts
\* to the configured MAX_LOGIN_ATTEMPTS locks the account until
\* LOCKOUT_DURATION_MINUTES minutes from now, and a failed login that leaves
\* the count below MAX_LOGIN_ATTEMPTS sets no lock, whatever values the
\* process was started with.
C17_ConfiguredLockout ==
    Idle =>
       \A e \in Emails, p \in Passwords :
          Known(e) /\ Unlocked(RowOf(e)) /\ authenticate_user(e, p) = None =>
             LET u == get_user_by_email(e)[1]
                 after == login(e, p).users[u]
             IN IF users[u].failed_attempts + 1 >= settings.MAX_LOGIN_ATTEMPTS
                THEN after.locked_until = Some(now + settings.LOCKOUT_DURATION_MINUTES)
                ELSE after.locked_until = users[u].locked_until

\* ------------------------------------------------------------------------
\* C16.  A locked_until that is set does not become null as time passes or
\* through a login that fails or is rejected: in every step in which an
\* account's locked_until becomes null, that account has logged in
\* successfully or an admin has activated it.  A locked_until that is not
\* after now does not block a login.
LoggedIn(u) ==
    \E e \in Emails, p \in Passwords :
       /\ get_user_by_email(e) = Some(u)
       /\ login(e, p).resp.status = 200
       /\ users' = login(e, p).users
       /\ resp' = login(e, p).resp

Activated(u) ==
    \E c \in Ids :
       /\ activate_user(c, u).resp.status = 200
       /\ users' = activate_user(c, u).users
       /\ resp' = activate_user(c, u).resp

ExpiredLockPasses ==
    Idle =>
       \A e \in Emails, p \in Passwords :
          Known(e) /\ RowOf(e).locked_until # None /\ RowOf(e).locked_until[1] <= now =>
             /\ login(e, p).resp.status # 403
             /\ Correct(e, p) /\ RowOf(e).is_active /\ RowOf(e).email_verified =>
                   login(e, p).resp.status = 200

C16_LockKept ==
    /\ []ExpiredLockPasses
    /\ [][\A u \in DOMAIN users \cap DOMAIN users' :
             users[u].locked_until # None /\ users'[u].locked_until = None =>
                LoggedIn(u) \/ Activated(u)]_vars

\* A login has failed for an account whose lock has run out, and the lock is
\* still recorded.
C16_Witness ==
    /\ resp = InvalidCredentials
    /\ \E u \in DOMAIN users :
          /\ users[u].locked_until # None
          /\ users[u].locked_until[1] <= now
          /\ users[u].failed_attempts > 0

\* ------------------------------------------------------------------------
\* C18.  Every Register and Login that reaches its handler logs at least one
\* security event, and the success flag of every event it logs equals the
\* outcome.  A successful Login logs exactly one auth_success; a failed
\* Login logs an auth_failure; account_lockout is logged by exactly the
\* attempts that set locked_until; Register logs user_registration with
\* success true when it answers 201 and with success false when it fails.
EventTypes(ev) == {ev[i].event_type : i \in 1..Len(ev)}
Flags(ev) == {ev[i].success : i \in 1..Len(ev)}
SetsLock(o) ==
    \E u \in DOMAIN users :
       o.users[u].locked_until # None /\ o.users[u].locked_until # users[u].locked_until

C18_EventsMatchOutcome ==
    /\ Idle =>
          \A e \in Emails, p \in Passwords :
             /\ ("account_lockout" \in EventTypes(login_events(e, p))) <=> SetsLock(login(e, p))
             /\ Flags(login_events(e, p)) = {login(e, p).resp.status = 200}
             /\ Flags(register_events(e, p)) = {register(e, p).resp.status = 201}
    /\ resp.op = "login" /\ resp.status = 200 =>
          Len(events) = 1 /\ EventTypes(events) = {"auth_success"}
    /\ resp.op = "login" /\ resp.status # 200 =>
          /\ "auth_failure" \in EventTypes(events)
          /\ EventTypes(events) \subseteq {"auth_failure", "account_lockout"}
          /\ Flags(events) = {FALSE}
    /\ resp.op = "register" =>
          /\ Len(events) = 1
          /\ EventTypes(events) = {"user_registration"}
          /\ Flags(events) = {resp.status = 201}

\* The failed login that locks an account has logged the lockout and the
\* failure.
C18_Witness ==
    /\ resp = InvalidCredentials
    /\ EventTypes(events) = {"account_lockout", "auth_failure"}
    /\ \E u \in DOMAIN users : users[u].locked_until = Some(now + LockoutMinutes)

\* ------------------------------------------------------------------------
\* C19.  Every security event carries the time at which it was created: the
\* events a request logs are stamped with the time of that request.
C19_EventTime ==
    \A i \in 1..Len(events) : events[i].timestamp = now

\* ------------------------------------------------------------------------
\* C20.  Every admin endpoint (list, get, create, update, activate,
\* deactivate, delete) called by an authenticated subject that is not a
\* superuser answers 403 "Not enough permissions" and changes no account.
Forbidden(op) == Answer(Resp(op, 403, <<"Not enough permissions">>))

C20_AdminOnly ==
    Idle =>
       \A c \in DOMAIN users :
          ~users[c].is_superuser =>
             /\ list_users(c) = Forbidden("list_users")
             /\ \A t \in Ids :
                   /\ get_user_by_id(c, t) = Forbidden("get_user_by_id")
                   /\ activate_user(c, t) = Forbidden("activate_user")
                   /\ deactivate_user(c, t) = Forbidden("deactivate_user")
                   /\ delete_user_admin(c, t) = Forbidden("delete_user_admin")
                   /\ \A e \in OptEmails, p \in OptPasswords :
                         update_user_admin(c, t, e, p) = Forbidden("update_user_admin")
             /\ \A e \in Emails, p \in StoredPasswords, s \in BOOLEAN :
                   create_user_admin(c, e, p, s) = Forbidden("create_user_admin")

\* An ordinary account has asked to delete a user and has been refused; both
\* accounts are still there.
C20_Witness ==
    /\ resp = Forbidden("delete_user_admin").resp
    /\ Cardinality(DOMAIN users) = 2
    /\ \E c \in DOMAIN users : ~users[c].is_superuser

\* ------------------------------------------------------------------------
\* C21.  With failing logins for one account running concurrently, the
\* account is locked once at most MAX_ATTEMPTS + 2 credential verifications
\* have failed since failed_attempts was last reset: more failures than that
\* are never counted against an account that is still not locked.
C21_BoundedOvershoot ==
    tally.verifs > MaxAttempts + 2 => IsLocked(RowOf(AdminEmail))

\* ------------------------------------------------------------------------
\* C22.  A lock that a failing login has committed stays in force when a
\* concurrent successful login for the same account commits: no step takes
\* away or changes a locked_until that is after now.
C22_LockNotBypassed ==
    [][\A u \in DOMAIN users :
          users[u].locked_until # None /\ users[u].locked_until[1] > now =>
             users'[u].locked_until = users[u].locked_until]_vars

\* ------------------------------------------------------------------------
\* C23.  With registrations of one email running concurrently, the check
\* and the insertion look like one step to the callers: one request creates
\* the account, no two accounts hold the same email, and every other
\* request fails with the duplicate-email error of create_user.
C23_RegisterAtomic ==
    /\ \A e \in Emails : tally.created[e] <= 1
    /\ \A u, v \in DOMAIN users : users[u].email = users[v].email => u = v
    /\ tally.raised \subseteq {"ValueError"}

\* ------------------------------------------------------------------------
\* C24.  With verifications of one token running concurrently, at most one
\* of the requests is answered 200.
C24_TokenConsumedOnce ==
    \A t \in Tokens : tally.verified[t] <= 1

\* ------------------------------------------------------------------------
\* C25 as stated: a login with a wrong secret for an email that has an
\* account is answered as a login for an email that has none, at every
\* point of every sequence of requests.
C25_UniformResponses ==
    Idle =>
       \A e1 \in Emails, e2 \in Emails, p \in Passwords :
          ~Known(e1) /\ Known(e2) /\ ~Correct(e2, p) =>
             login(e2, p).resp = login(e1, p).resp

\* C25.  At every point of every sequence of requests, a login with a wrong
\* secret for an email that has an account is answered as a login for an
\* email that has none (401 "Incorrect credentials") as long as the account
\* is not locked; while the account is locked it is answered 403 "Account
\* locked until", which a login for an unknown email never gets.
C25_UniformUntilLocked ==
    Idle =>
       \A e \in Emails, p \in Passwords :
          /\ ~Known(e) => login(e, p).resp = InvalidCredentials
          /\ Known(e) /\ ~Correct(e, p) =>
                IF Unlocked(RowOf(e))
                THEN login(e, p).resp = InvalidCredentials
                ELSE /\ login(e, p).resp.status = 403
                     /\ login(e, p).resp.detail = LockedDetail
                     /\ login(e, p).resp.until = RowOf(e).locked_until

\* Five wrong secrets in a row have locked an account, a sixth login has
\* been answered 403, and an email without an account exists.
C25_Witness ==
    /\ resp.op = "login"
    /\ resp.status = 403
    /\ Armed(AdminEmail) /\ InWindow /\ ~streak.sixth
    /\ \E e \in Emails : ~Known(e)

\* ------------------------------------------------------------------------
\* C26.  An admin's deactivate of a superuser succeeds whenever another
\* active superuser exists, and an admin's delete of a superuser succeeds
\* whenever another superuser exists.
C26_OtherAdminSuffices ==
    Idle =>
       \A c \in Ids, t \in Ids :
          get_current_admin_user(c) = 200 /\ t \in Superusers =>
             /\ ActiveSuperusers(users) \ {t} # {} => deactivate_user(c, t).resp.status = 200
             /\ Superusers \ {t} # {} => delete_user_admin(c, t).resp.status = 200

\* ------------------------------------------------------------------------
\* C27.  A login returns a token pair only if an account with the email
\* exists, is active, has its email verified, is not locked and the secret
\* matches its hash: in that case it is answered 200 with the pair, and in
\* every other case the response carries no token.
MayLogin(e, p) ==
    /\ Known(e)
    /\ RowOf(e).is_active
    /\ RowOf(e).email_verified
    /\ Unlocked(RowOf(e))
    /\ Correct(e, p)

C27_TokensOnlyIf ==
    /\ Idle =>
          \A e \in Emails, p \in Passwords :
             /\ login(e, p).resp.tokens # <<>> => MayLogin(e, p)
             /\ login(e, p).resp.status = 200 <=> MayLogin(e, p)
    /\ resp.op = "login" =>
          (resp.tokens # <<>> <=> resp.status = 200)

\* A deactivated account that had registered and verified its email has
\* presented its correct secret and has been given no token.
C27_Witness ==
    /\ resp = InvalidCredentials
    /\ \E u \in DOMAIN users :
          /\ ~users[u].is_active
          /\ users[u].email_verified
          /\ users[u].failed_attempts = 1
          /\ streak = NoStreak

\* ------------------------------------------------------------------------
\* C28 as stated: a login that carries the account's correct secret never
\* increments failed_attempts and never sets locked_until, whatever the
\* account's is_active and email_verified flags.
NotCounted(before, after) ==
    /\ after.failed_attempts <= before.failed_attempts
    /\ after.locked_until \in {before.locked_until, None}

C28_CorrectNeverCounted ==
    Idle =>
       \A e \in Emails, p \in Passwords :
          Known(e) /\ Correct(e, p) =>
             NotCounted(RowOf(e), login(e, p).users[get_user_by_email(e)[1]])

\* C28.  A login that carries the correct secret of an active account never
\* increments failed_attempts and never sets locked_until, whether or not
\* the email is verified.  The correct secret of a deactivated account that
\* is not locked is counted as a failed attempt.
C28_CorrectActiveNeverCounted ==
    Idle =>
       \A e \in Emails, p \in Passwords :
          Known(e) =>
             LET before == RowOf(e)
                 after == login(e, p).users[get_user_by_email(e)[1]]
             IN /\ Correct(e, p) /\ before.is_active => NotCounted(before, after)
                /\ Correct(e, p) /\ ~before.is_active /\ Unlocked(before) =>
                      after = CountFailure(before)

\* An active account whose email is not verified has presented its correct
\* secret after two wrong ones: the count is still two.
C28_Witness ==
    /\ resp.op = "login"
    /\ resp.detail = <<"Email not verified">>
    /\ \E u \in DOMAIN users :
          /\ users[u].is_active /\ ~users[u].email_verified
          /\ users[u].failed_attempts = 2
          /\ users[u].locked_until = None

\* ------------------------------------------------------------------------
\* C29.  In every reachable state, every account whose email is not
\* verified holds a verification token, so that VerifyEmail can still make
\* it verified.
C29_UnverifiedHoldsToken ==
    \A u \in DOMAIN users :
       ~users[u].email_verified => users[u].email_verification_token # None

\* ------------------------------------------------------------------------
\* C30.  An account becomes a superuser only through the user creation of
\* an admin: in every step after which an account is a superuser that was
\* not one before, a superuser has called POST /users/ with is_superuser
\* set.  Register creates accounts that are not superusers.
CreatedByAdmin ==
    \E c \in Ids, e \in Emails, p \in StoredPasswords :
       /\ get_current_admin_user(c) = 200
       /\ create_user_admin(c, e, p, TRUE).resp.status = 201
       /\ users' = create_user_admin(c, e, p, TRUE).users
       /\ resp' = create_user_admin(c, e, p, TRUE).resp

RegistersOrdinary ==
    Idle =>
       \A e \in Emails, p \in Passwords :
          \A u \in DOMAIN register(e, p).users :
             register(e, p).users[u].is_superuser => u \in Superusers

C30_SuperuserOnlyByAdmin ==
    /\ []RegistersOrdinary
    /\ [][\A u \in DOMAIN users' :
             users'[u].is_superuser /\ u \notin Superusers => CreatedByAdmin]_vars

\* The admin has created a second superuser.
C30_Witness ==
    /\ resp.op = "create_user_admin"
    /\ resp.status = 201
    /\ Cardinality(Superusers) = 2
====
